---- MODULE Spec2Model ----
(***************************************************************************)
(* Model of shinycast's hot-reloadable scheduler: the Worker of            *)
(* worker/src/lib.rs (try_schedule, stop, the spawned tick loop), the      *)
(* schedule compiler new_job_from_config of model/src/lib.rs, and the two  *)
(* Workers, their builder closures and the change watcher that             *)
(* app/src/main.rs wires together over the sled store.                     *)
(*                                                                         *)
(* Spec     : the Worker library driven by an arbitrary client (any        *)
(*            sequence of try_schedule / stop calls, root cancellation).   *)
(* AppSpec  : the program main() actually runs.                            *)
(* FairSpec, FairAppSpec : the same with the runtime's fairness.           *)
(* WatchedAppSpec : AppSpec with fairness of main and the watcher only.    *)
(* CompilerSpec : the schedule compiler run on every small expression.     *)
(* ActionSpec : the Worker library with jobs whose actions may be slow,    *)
(*            never end or panic.                                          *)
(***************************************************************************)
EXTENDS Integers, Sequences, FiniteSets, TLC

\* ------------------------------------------------------------------ bounds
MaxCalls == 3        \* try_schedule calls a client makes in all (Spec)
MaxChanges == 2      \* store writes made while the model runs
MaxActionCalls == 2  \* try_schedule calls a client makes in all (ActionSpec)
MaxLen == 2          \* adjustments in a schedule expression (CompilerSpec)

\* --------------------------------------------------------------- constants
Workers == {"service", "podcast"}
Keys == <<"a", "b">>          \* keys of the podcasts tree, in sled's iteration order

\* ----------------------------------------------------- schedule expressions
\* model::Adjustment: one record shape for the five variants
At(x) == [kind |-> "At", arg |-> x, n |-> 0]
Plus(x) == [kind |-> "Plus", arg |-> x, n |-> 0]
AndEvery(x) == [kind |-> "AndEvery", arg |-> x, n |-> 0]
Count(x) == [kind |-> "Count", arg |-> "-", n |-> x]
RepeatingEvery(x, y) == [kind |-> "RepeatingEvery", arg |-> x, n |-> y]

\* Option<Vec<Adjustment>>
NoAdjustment == [some |-> FALSE, list |-> <<>>]
SomeAdjustment(l) == [some |-> TRUE, list |-> l]

ScheduleConfiguration(b, a) == [base |-> b, adjustment |-> a]

\* ServerConfig::default().downloader_schedule
DefaultSchedule == ScheduleConfiguration("Minutes5", NoAdjustment)

\* the schedule expressions stored records are drawn from
CountZero == ScheduleConfiguration("Seconds1", SomeAdjustment(<<Count(0)>>))
PlusRepeating ==
  ScheduleConfiguration("Minutes5", SomeAdjustment(<<Plus("Seconds30"), RepeatingEvery("Seconds1", 2)>>))

\* --------------------------------------------------------- stored records
\* bytes under a key: nothing, bytes serde_json rejects, or a serialised value
\* (a model::Podcast with its update_schedule, a model::ServerConfig with its
\* downloader_schedule)
Absent == [kind |-> "absent", has_schedule |-> FALSE, schedule |-> DefaultSchedule]
Malformed == [kind |-> "malformed", has_schedule |-> FALSE, schedule |-> DefaultSchedule]
PodcastNoSchedule == [kind |-> "value", has_schedule |-> FALSE, schedule |-> DefaultSchedule]
PodcastWith(c) == [kind |-> "value", has_schedule |-> TRUE, schedule |-> c]
ConfigWith(c) == [kind |-> "value", has_schedule |-> TRUE, schedule |-> c]

PodcastRecords == {Absent, Malformed, PodcastNoSchedule, PodcastWith(CountZero)}
ConfigRecords == {Absent, Malformed, ConfigWith(CountZero)}

KeyIdx == 1..Len(Keys)

\* what key "config" holds when the process starts
InitConfigs == ConfigRecords \cup {ConfigWith(PlusRepeating)}

\* what the podcasts tree holds when the process starts
InitStorages ==
  { [k \in KeyIdx |-> Absent],
    [k \in KeyIdx |-> IF k = 1 THEN Malformed
                      ELSE PodcastWith(CountZero)] }

\* the schedule expressions the compiler is run on: every list of at most
\* MaxLen adjustments over the five variants, and no list at all
Bases == {"Seconds1", "Minutes5"}
AdjustmentValues ==
  {At("T1420"), Plus("Seconds30"), AndEvery("Minutes5"), Count(1), Count(2),
   RepeatingEvery("Seconds1", 2)}
AdjustmentLists == UNION {[1..n -> AdjustmentValues] : n \in 0..MaxLen}
ScheduleExpressions ==
  {ScheduleConfiguration(b, a) :
     b \in Bases, a \in {NoAdjustment} \cup {SomeAdjustment(l) : l \in AdjustmentLists}}

VARIABLES
  cancel_token_root,  \* TRUE once the root CancellationToken is cancelled
  current_token,      \* Worker.current_token: 0 for None, else the token's index
  tokens,             \* every child token derived so far: [owner, cancelled]
  tasks,              \* the tick-loop task spawned with token i: [pc, jobs]
  last_result,        \* what each Worker's last try_schedule returned
  builds,             \* how often each Worker's source closure was invoked
  config,             \* the record under key "config" of the default tree
  storage,            \* the podcasts tree: key index -> record
  sub,                \* events queued on the watch_prefix subscriber
  consumed,           \* events the change watcher has taken from sub
  changes,            \* writes made to the store: [config, podcasts]
  main_pc,            \* where main() is
  watcher             \* the change-watcher task: "none", "waiting", "panicked"

vars == <<cancel_token_root, current_token, tokens, tasks, last_result, builds,
          config, storage, sub, consumed, changes, main_pc, watcher>>

workerVars == <<current_token, tokens, tasks, last_result, builds>>
storeVars == <<config, storage, sub, changes>>
appVars == <<consumed, main_pc, watcher>>


\* ------------------------------------------------------ schedule compiler
\* a clokwerk job under construction: the base interval handed to every(), the
\* builder calls applied to it so far, and the action bound by run()
Every(b) == [base |-> b, ops |-> <<>>, action |-> "-"]
BuilderCall(job, op, x, k) == [job EXCEPT !.ops = Append(@, [op |-> op, arg |-> x, n |-> k])]

\* a compiler that leaves Count(0) out
ApplyAdjustment_SkipCountZero(job, adj) ==
  CASE adj.kind = "At" -> BuilderCall(job, "at_time", adj.arg, 0)
    [] adj.kind = "Plus" -> BuilderCall(job, "plus", adj.arg, 0)
    [] adj.kind = "AndEvery" -> BuilderCall(job, "and_every", adj.arg, 0)
    [] adj.kind = "Count" -> IF adj.n = 0 THEN job ELSE BuilderCall(job, "count", "-", adj.n)
    [] adj.kind = "RepeatingEvery" ->
         BuilderCall(BuilderCall(job, "repeating_every", adj.arg, 0), "times", "-", adj.n)

\* one arm of the match in new_job_from_config
ApplyAdjustment(job, adj) ==
  CASE adj.kind = "At" -> BuilderCall(job, "at_time", adj.arg, 0)
    [] adj.kind = "Plus" -> BuilderCall(job, "plus", adj.arg, 0)
    [] adj.kind = "AndEvery" -> BuilderCall(job, "and_every", adj.arg, 0)
    [] adj.kind = "Count" -> BuilderCall(job, "count", "-", adj.n)
    [] adj.kind = "RepeatingEvery" ->
         BuilderCall(BuilderCall(job, "repeating_every", adj.arg, 0), "times", "-", adj.n)

\* the for loop over the adjustments, first to last
RECURSIVE ApplyAdjustments(_, _)
ApplyAdjustments(job, list) ==
  IF list = <<>> THEN job
  ELSE ApplyAdjustments(ApplyAdjustment(job, Head(list)), Tail(list))

\* a compiler that walks the adjustments last to first
new_job_from_config_Reversed(c) ==
  IF c.adjustment.some
  THEN LET l == c.adjustment.list
       IN ApplyAdjustments(Every(c.base), [i \in 1..Len(l) |-> l[Len(l) + 1 - i]])
  ELSE Every(c.base)

\* ConfigSchedulerExt::new_job_from_config: the job it leaves on the scheduler.
\* It returns &mut AsyncJob, never an error.
new_job_from_config(c) ==
  IF c.adjustment.some THEN ApplyAdjustments(Every(c.base), c.adjustment.list)
  ELSE Every(c.base)

\* s.new_job_from_config(c).run(action): the scheduler with the job registered
Register(scheduler, c, action) ==
  Append(scheduler, [new_job_from_config(c) EXCEPT !.action = action])

\* ---------------------------------------------------------------- builders
\* eyre::Result<()> of a source closure, with the scheduler as the closure left
\* it; the errors the closures can return are sled's and serde_json's
Ok(scheduler) == [ok |-> TRUE, error |-> "ok", jobs |-> scheduler]
Err(scheduler, e) == [ok |-> FALSE, error |-> e, jobs |-> scheduler]
Errors == {"storage_error", "serialization_error"}

\* the service worker's source closure (main.rs 36-51); readFails: the sled
\* get("config") returns Err
ServiceSource(scheduler, readFails) ==
  IF readFails THEN Err(scheduler, "storage_error")
  ELSE IF config.kind = "malformed" THEN Err(scheduler, "serialization_error")
  ELSE LET c == IF config.kind = "value" THEN config.schedule ELSE DefaultSchedule
       IN Ok(Register(scheduler, c, "download"))

\* the podcasts the scan collects: items whose read succeeded and whose bytes
\* deserialise (both filter_map .ok()), in key order
ScannedPodcasts(scanFails) ==
  SelectSeq([i \in KeyIdx |-> i], LAMBDA i : i \notin scanFails /\ storage[i].kind = "value")

RECURSIVE RegisterPodcasts(_, _)
RegisterPodcasts(scheduler, podcasts) ==
  IF podcasts = <<>> THEN scheduler
  ELSE LET p == storage[Head(podcasts)]
           s == IF p.has_schedule THEN Register(scheduler, p.schedule, Keys[Head(podcasts)])
                ELSE scheduler
       IN RegisterPodcasts(s, Tail(podcasts))

\* the podcast worker's source closure (main.rs 63-81); scanFails: the items
\* of storage.iter() that are Err. It always returns Ok.
PodcastSource(scheduler, scanFails) ==
  Ok(RegisterPodcasts(scheduler, ScannedPodcasts(scanFails)))

Source(w, scheduler, readFails, scanFails) ==
  IF w = "service" THEN ServiceSource(scheduler, readFails)
  ELSE PodcastSource(scheduler, scanFails)

\* ------------------------------------------------------------------ Worker
\* AsyncScheduler::with_tz: a scheduler with no jobs
NewScheduler == <<>>

\* cancel_token_root.child_token(): a child of a cancelled parent is cancelled
ChildToken(w) == [owner |-> w, cancelled |-> cancel_token_root]

\* the task try_schedule spawns, owning the scheduler; running are the fired
\* actions whose futures the awaited run_pending() still holds. The first poll
\* of a task whose token is live only arms the sleep of its first select!, so
\* the task is taken there ("select"); a task spawned with a token that is
\* cancelled already has its first poll still to come ("spawned"). sched names
\* the scheduler instance the task owns, the one this call created with with_tz:
\* the schedulers handed to tasks are numbered as they come.
SpawnedTask(scheduler) ==
  [pc |-> IF cancel_token_root THEN "spawned" ELSE "select",
   sched |-> Len(tasks) + 1,
   jobs |-> scheduler, running |-> {}]

\* stop that cancels nothing
StopTokens_Skip(w) == tokens

\* stop that cancels the current token of every Worker
StopTokens_Shared(w) ==
  [t \in DOMAIN tokens |->
     IF \E v \in Workers : current_token[v] = t
     THEN [tokens[t] EXCEPT !.cancelled = TRUE] ELSE tokens[t]]

\* Worker::stop: the tokens after it
StopTokens(w) ==
  [t \in DOMAIN tokens |->
     IF current_token[w] = t THEN [tokens[t] EXCEPT !.cancelled = TRUE] ELSE tokens[t]]

\* try_schedule that does not call stop first
TrySchedule_NoStop(w, readFails, scanFails) ==
  LET r == Source(w, NewScheduler, readFails, scanFails)
      token == Len(tokens) + 1
  IN /\ builds' = [builds EXCEPT ![w] = @ + 1]
     /\ IF r.ok
        THEN /\ tokens' = Append(tokens, ChildToken(w))
             /\ current_token' = [current_token EXCEPT ![w] = token]
             /\ tasks' = Append(tasks, SpawnedTask(r.jobs))
             /\ last_result' = [last_result EXCEPT ![w] = "ok"]
        ELSE /\ tokens' = tokens
             /\ last_result' = [last_result EXCEPT ![w] = r.error]
             /\ UNCHANGED <<current_token, tasks>>

\* try_schedule that drops the source's error instead of returning it
TrySchedule_IgnoreError(w, readFails, scanFails) ==
  LET stopped == StopTokens(w)
      r == Source(w, NewScheduler, readFails, scanFails)
      token == Len(tokens) + 1
  IN /\ builds' = [builds EXCEPT ![w] = @ + 1]
     /\ tokens' = Append(stopped, ChildToken(w))
     /\ current_token' = [current_token EXCEPT ![w] = token]
     /\ tasks' = Append(tasks, SpawnedTask(r.jobs))
     /\ last_result' = [last_result EXCEPT ![w] = "ok"]

\* Worker::try_schedule
TrySchedule(w, readFails, scanFails) ==
  LET stopped == StopTokens(w)
      r == Source(w, NewScheduler, readFails, scanFails)
      token == Len(tokens) + 1
  IN /\ builds' = [builds EXCEPT ![w] = @ + 1]
     /\ IF r.ok
        THEN /\ tokens' = Append(stopped, ChildToken(w))
             /\ current_token' = [current_token EXCEPT ![w] = token]
             /\ tasks' = Append(tasks, SpawnedTask(r.jobs))
             /\ last_result' = [last_result EXCEPT ![w] = "ok"]
        ELSE /\ tokens' = stopped
             /\ last_result' = [last_result EXCEPT ![w] = r.error]
             /\ UNCHANGED <<current_token, tasks>>

\* stop that takes the token out of current_token
Stop_Take(w) ==
  /\ tokens' = StopTokens(w)
  /\ current_token' = [current_token EXCEPT ![w] = 0]
  /\ UNCHANGED <<cancel_token_root, tasks, last_result, builds>>
  /\ UNCHANGED <<storeVars, appVars>>

\* Worker::stop called by a client
Stop(w) ==
  /\ tokens' = StopTokens(w)
  /\ UNCHANGED <<cancel_token_root, current_token, tasks, last_result, builds>>
  /\ UNCHANGED <<storeVars, appVars>>

\* a client calls try_schedule
ClientTrySchedule(w) ==
  /\ builds["service"] + builds["podcast"] < MaxCalls
  /\ \E readFails \in BOOLEAN, scanFails \in SUBSET KeyIdx :
       TrySchedule(w, readFails, scanFails)
  /\ UNCHANGED <<cancel_token_root, storeVars, appVars>>

\* the holder of the root token cancels it: every child is cancelled with it
CancelRoot ==
  /\ ~cancel_token_root
  /\ cancel_token_root' = TRUE
  /\ tokens' = [t \in DOMAIN tokens |-> [tokens[t] EXCEPT !.cancelled = TRUE]]
  /\ UNCHANGED <<current_token, tasks, last_result, builds, storeVars, appVars>>

\* --------------------------------------------------------------- tick loop
\* The spawned loop has not been polled yet ("spawned"), waits in its select!
\* ("select"), awaits run_pending() ("run_pending"), has returned ("done") or
\* was unwound by a panic ("panicked"). Entering the select! creates a new 1 s
\* sleep and polls both branches at once: if the token is cancelled by then the
\* cancelled branch is the only ready one and the loop returns. While the loop
\* waits, the sleep can elapse and the token be cancelled before the runtime
\* polls the task again; select! is not biased, so with both ready either
\* branch is taken.
EnterSelect(t) == IF tokens[t].cancelled THEN "done" ELSE "select"

\* the runtime polls the spawned task for the first time
FirstPoll(t) ==
  /\ tasks[t].pc = "spawned"
  /\ tasks' = [tasks EXCEPT ![t].pc = EnterSelect(t)]
  /\ UNCHANGED <<cancel_token_root, current_token, tokens, last_result, builds, storeVars, appVars>>

\* a select! whose cancellation branch also races the awaited run_pending()
SelectCancelled_Anywhere(t) ==
  /\ tasks[t].pc \in {"select", "run_pending"}
  /\ tokens[t].cancelled
  /\ tasks' = [tasks EXCEPT ![t].pc = "done", ![t].running = {}]
  /\ UNCHANGED <<cancel_token_root, current_token, tokens, last_result, builds, storeVars, appVars>>

\* select! takes the token.cancelled() branch: return
SelectCancelled(t) ==
  /\ tasks[t].pc = "select"
  /\ tokens[t].cancelled
  /\ tasks' = [tasks EXCEPT ![t].pc = "done"]
  /\ UNCHANGED <<cancel_token_root, current_token, tokens, last_result, builds, storeVars, appVars>>

\* the sleep elapsed and select! takes its branch: scheduler.run_pending()
\* fires the jobs that are due and the loop awaits the future it returns, which
\* polls the fired actions until all are complete; slow are the fired actions
\* that are not complete after their first poll
SelectSleepFiring(t, slow) ==
  /\ tasks[t].pc = "select"
  /\ slow \subseteq DOMAIN tasks[t].jobs
  /\ tasks' = [tasks EXCEPT ![t].pc = "run_pending", ![t].running = slow]
  /\ UNCHANGED <<cancel_token_root, current_token, tokens, last_result, builds, storeVars, appVars>>

\* the same with actions that complete at their first poll, as the println!
\* actions main.rs binds do
SelectSleep(t) == SelectSleepFiring(t, {})

\* a fired action completes
ActionCompletes(t, j) ==
  /\ tasks[t].pc = "run_pending"
  /\ j \in tasks[t].running
  /\ tasks' = [tasks EXCEPT ![t].running = @ \ {j}]
  /\ UNCHANGED <<cancel_token_root, current_token, tokens, last_result, builds, storeVars, appVars>>

\* a fired action panics while the loop's task polls it: the panic unwinds the
\* task, dropping the scheduler and the other futures it holds
ActionPanics(t, j) ==
  /\ tasks[t].pc = "run_pending"
  /\ j \in tasks[t].running
  /\ tasks' = [tasks EXCEPT ![t].pc = "panicked", ![t].running = {}]
  /\ UNCHANGED <<cancel_token_root, current_token, tokens, last_result, builds, storeVars, appVars>>

\* a run_pending() whose future is ready while fired actions are still running
RunPendingReturns_Early(t) ==
  /\ tasks[t].pc = "run_pending"
  /\ tasks' = [tasks EXCEPT ![t].pc = EnterSelect(t)]
  /\ UNCHANGED <<cancel_token_root, current_token, tokens, last_result, builds, storeVars, appVars>>

\* run_pending().await returns once every fired action is complete: the loop
\* goes round to a new select!
RunPendingReturns(t) ==
  /\ tasks[t].pc = "run_pending"
  /\ tasks[t].running = {}
  /\ tasks' = [tasks EXCEPT ![t].pc = EnterSelect(t)]
  /\ UNCHANGED <<cancel_token_root, current_token, tokens, last_result, builds, storeVars, appVars>>

TickLoop(t) ==
  \/ SelectCancelled(t)
  \/ SelectSleep(t)
  \/ RunPendingReturns(t)

\* ------------------------------------------------------------------- store
\* a write the subscriber is not told of
PodcastChange_Silent(k, v) ==
  /\ changes.config + changes.podcasts < MaxChanges
  /\ storage' = [storage EXCEPT ![k] = v]
  /\ changes' = [changes EXCEPT !.podcasts = @ + 1]
  /\ UNCHANGED <<sub, config, cancel_token_root, workerVars, appVars>>

\* a write to the podcasts tree (insert, overwrite or remove); the subscriber
\* of watch_prefix(""), once it exists, gets one event per write
PodcastChange(k, v) ==
  /\ changes.config + changes.podcasts < MaxChanges
  /\ storage' = [storage EXCEPT ![k] = v]
  /\ sub' = IF watcher = "waiting" THEN sub + 1 ELSE sub
  /\ changes' = [changes EXCEPT !.podcasts = @ + 1]
  /\ UNCHANGED <<config, cancel_token_root, workerVars, appVars>>

\* a write to key "config" of the default tree: nobody watches that tree
ConfigChange(v) ==
  /\ changes.config + changes.podcasts < MaxChanges
  /\ config' = v
  /\ changes' = [changes EXCEPT !.config = @ + 1]
  /\ UNCHANGED <<storage, sub, cancel_token_root, workerVars, appVars>>

StoreChange ==
  \/ \E k \in KeyIdx, v \in PodcastRecords : PodcastChange(k, v)
  \/ \E v \in ConfigRecords : ConfigChange(v)

\* -------------------------------------------------------------------- main
\* service_worker.try_schedule()? (main.rs 55)
MainScheduleService ==
  /\ main_pc = "service_worker"
  /\ \E readFails \in BOOLEAN : TrySchedule("service", readFails, {})
  /\ main_pc' = IF last_result'["service"] = "ok" THEN "podcast_worker" ELSE "exited"
  /\ UNCHANGED <<cancel_token_root, storeVars, consumed, watcher>>

\* podcast_worker.try_schedule()? (main.rs 85)
MainSchedulePodcast ==
  /\ main_pc = "podcast_worker"
  /\ \E scanFails \in SUBSET KeyIdx : TrySchedule("podcast", FALSE, scanFails)
  /\ main_pc' = IF last_result'["podcast"] = "ok" THEN "watch" ELSE "exited"
  /\ UNCHANGED <<cancel_token_root, storeVars, consumed, watcher>>

\* storage.watch_prefix("") and the spawn of the watcher task (main.rs 87-94);
\* main goes on to serve requests
MainSpawnWatcher ==
  /\ main_pc = "watch"
  /\ watcher' = "waiting"
  /\ main_pc' = "serving"
  /\ UNCHANGED <<cancel_token_root, workerVars, storeVars, consumed>>

\* a watcher that drains the queued events and reschedules once for all of them
WatcherNext_Batch ==
  /\ watcher = "waiting"
  /\ sub > 0
  /\ sub' = 0
  /\ consumed' = consumed + sub
  /\ \E scanFails \in SUBSET KeyIdx : TrySchedule("podcast", FALSE, scanFails)
  /\ watcher' = IF last_result'["podcast"] = "ok" THEN "waiting" ELSE "panicked"
  /\ UNCHANGED <<cancel_token_root, config, storage, changes, main_pc>>

\* one turn of the watcher's while-let loop: take an event, reschedule, and
\* panic in expect() if that failed
WatcherNext ==
  /\ watcher = "waiting"
  /\ sub > 0
  /\ sub' = sub - 1
  /\ consumed' = consumed + 1
  /\ \E scanFails \in SUBSET KeyIdx : TrySchedule("podcast", FALSE, scanFails)
  /\ watcher' = IF last_result'["podcast"] = "ok" THEN "waiting" ELSE "panicked"
  /\ UNCHANGED <<cancel_token_root, config, storage, changes, main_pc>>

\* writes reach the store through the running server only
ServedChange ==
  /\ main_pc = "serving"
  /\ StoreChange

\* ---------------------------------------------------------- specifications
Init ==
  /\ cancel_token_root = FALSE
  /\ current_token = [w \in Workers |-> 0]
  /\ tokens = <<>>
  /\ tasks = <<>>
  /\ last_result = [w \in Workers |-> "none"]
  /\ builds = [w \in Workers |-> 0]
  /\ config \in InitConfigs
  /\ storage \in InitStorages
  /\ sub = 0
  /\ consumed = 0
  /\ changes = [config |-> 0, podcasts |-> 0]
  /\ main_pc = "service_worker"
  /\ watcher = "none"

Next ==
  \/ \E w \in Workers : ClientTrySchedule(w)
  \/ \E w \in Workers : Stop(w)
  \/ CancelRoot
  \/ \E t \in DOMAIN tasks : FirstPoll(t)
  \/ \E t \in DOMAIN tasks : TickLoop(t)

Spec == Init /\ [][Next]_vars

\* the tasks a client's calls can spawn
TaskIds == 1..MaxCalls

\* tokio polls a woken task, and the actions main.rs binds (a println!) finish,
\* so an awaited run_pending() returns; a loop whose token is cancelled is woken
\* at every select! and select!'s random choice takes the cancelled branch in
\* the end
TickFairness(ids) ==
  \A t \in ids :
    /\ WF_vars(t \in DOMAIN tasks /\ FirstPoll(t))
    /\ WF_vars(t \in DOMAIN tasks /\ RunPendingReturns(t))
    /\ SF_vars(t \in DOMAIN tasks /\ SelectCancelled(t))

FairSpec == Spec /\ TickFairness(TaskIds)

\* main never cancels the root token, so every task is spawned with a live one
AppNext ==
  \/ MainScheduleService
  \/ MainSchedulePodcast
  \/ MainSpawnWatcher
  \/ WatcherNext
  \/ \E t \in DOMAIN tasks : TickLoop(t)
  \/ ServedChange

AppSpec == Init /\ [][AppNext]_vars

\* the tasks main's two calls and the watcher's rebuilds can spawn
AppTaskIds == 1..(MaxChanges + 2)

\* main and the watcher task run whenever they can
WatcherFairness ==
  /\ WF_vars(MainScheduleService)
  /\ WF_vars(MainSchedulePodcast)
  /\ WF_vars(MainSpawnWatcher)
  /\ WF_vars(WatcherNext)

FairAppSpec == AppSpec /\ WatcherFairness /\ TickFairness(AppTaskIds)

\* the program with no assumption on the tick loops' progress
WatchedAppSpec == AppSpec /\ WatcherFairness

\* the Worker library under a client whose jobs run arbitrary actions: slow,
\* never-ending or panicking ones. The store holds the default config (one
\* service job) and two podcasts with a schedule (two podcast jobs).
ActionInit ==
  /\ cancel_token_root = FALSE
  /\ current_token = [w \in Workers |-> 0]
  /\ tokens = <<>>
  /\ tasks = <<>>
  /\ last_result = [w \in Workers |-> "none"]
  /\ builds = [w \in Workers |-> 0]
  /\ config = Absent
  /\ storage = [k \in KeyIdx |-> PodcastWith(CountZero)]
  /\ sub = 0
  /\ consumed = 0
  /\ changes = [config |-> 0, podcasts |-> 0]
  /\ main_pc = "service_worker"
  /\ watcher = "none"

\* the client's try_schedule calls, fewer of them
ActionClientTrySchedule(w) ==
  /\ builds["service"] + builds["podcast"] < MaxActionCalls
  /\ ClientTrySchedule(w)

ActionNext ==
  \/ \E w \in Workers : ActionClientTrySchedule(w)
  \/ \E w \in Workers : Stop(w)
  \/ CancelRoot
  \/ \E t \in DOMAIN tasks : FirstPoll(t)
  \/ \E t \in DOMAIN tasks : SelectCancelled(t)
  \/ \E t \in DOMAIN tasks : \E slow \in SUBSET DOMAIN tasks[t].jobs : SelectSleepFiring(t, slow)
  \/ \E t \in DOMAIN tasks : \E j \in tasks[t].running : ActionCompletes(t, j)
  \/ \E t \in DOMAIN tasks : \E j \in tasks[t].running : ActionPanics(t, j)
  \/ \E t \in DOMAIN tasks : RunPendingReturns(t)

ActionSpec == ActionInit /\ [][ActionNext]_vars

\* the schedule compiler on its own: the stored config holds any schedule
\* expression and main builds the service Worker from it
CompilerInit ==
  /\ cancel_token_root = FALSE
  /\ current_token = [w \in Workers |-> 0]
  /\ tokens = <<>>
  /\ tasks = <<>>
  /\ last_result = [w \in Workers |-> "none"]
  /\ builds = [w \in Workers |-> 0]
  /\ config \in {ConfigWith(c) : c \in ScheduleExpressions}
  /\ storage = [k \in KeyIdx |-> Absent]
  /\ sub = 0
  /\ consumed = 0
  /\ changes = [config |-> 0, podcasts |-> 0]
  /\ main_pc = "service_worker"
  /\ watcher = "none"

CompilerNext == MainScheduleService

CompilerSpec == CompilerInit /\ [][CompilerNext]_vars

TypeOK ==
  /\ cancel_token_root \in BOOLEAN
  /\ current_token \in [Workers -> 0..Len(tokens)]
  /\ Len(tasks) = Len(tokens)
  /\ \A t \in DOMAIN tokens : tokens[t].owner \in Workers /\ tokens[t].cancelled \in BOOLEAN
  /\ \A t \in DOMAIN tasks : tasks[t].pc \in {"spawned", "select", "run_pending", "done", "panicked"}
  /\ last_result \in [Workers -> {"none", "ok"} \cup Errors]
  /\ config \in InitConfigs
  /\ storage \in [KeyIdx -> PodcastRecords]
  /\ main_pc \in {"service_worker", "podcast_worker", "watch", "serving", "exited"}
  /\ watcher \in {"none", "waiting", "panicked"}


\* ------------------------------------------------------------------ claims
TokensOf(w) == {t \in DOMAIN tokens : tokens[t].owner = w}
Alive(t) == tasks[t].pc \notin {"done", "panicked"}
Active(t) == Alive(t) /\ ~tokens[t].cancelled
ActiveLoops(w) == {t \in TokensOf(w) : Active(t)}
AliveLoops(w) == {t \in TokensOf(w) : Alive(t)}
TryScheduleStep(w) == builds'[w] = builds[w] + 1
Advances(t) == tasks[t].pc = "select" /\ tasks'[t].pc = "run_pending"

EarlierTokensCancelled ==
  \A w \in Workers : \A t \in TokensOf(w) : t # current_token[w] => tokens[t].cancelled
RebuiltAndRunning(w) ==
  /\ Cardinality(TokensOf(w)) >= 2
  /\ last_result[w] = "ok"
  /\ ~tokens[current_token[w]].cancelled
OnlyLastLoopAlive(w) == AliveLoops(w) = {current_token[w]}

\* C1: after two or more successful try_schedule calls on a Worker, the last of
\* them successful and its token not cancelled since, eventually the only
\* tick loop of that Worker still alive is the one bound to the last call's
\* token; and at all times every token a later call replaced is cancelled.
C1_RebuildLeavesOneLoop ==
  /\ []EarlierTokensCancelled
  /\ \A w \in Workers :
       RebuiltAndRunning(w) ~> (OnlyLastLoopAlive(w) \/ ~RebuiltAndRunning(w))

C1_Witness ==
  \E w \in Workers :
    /\ RebuiltAndRunning(w)
    /\ OnlyLastLoopAlive(w)
    /\ \E t \in TokensOf(w) : t # current_token[w] /\ tasks[t].pc = "done"

AtMostOneActive == \A w \in Workers : Cardinality(ActiveLoops(w)) <= 1
FreshTokenStep ==
  \A w \in Workers :
    (TryScheduleStep(w) /\ last_result'[w] = "ok") =>
      /\ current_token'[w] \notin DOMAIN tokens
      /\ current_token'[w] \in DOMAIN tokens'
      /\ current_token'[w] # current_token[w]
      /\ tokens'[current_token'[w]] = [owner |-> w, cancelled |-> cancel_token_root]
      /\ Len(tokens') = Len(tokens) + 1

\* C2: each Worker has at most one active tick loop (spawned, not terminated,
\* token not cancelled) in every reachable state, and every successful
\* try_schedule stores in current_token a token newly derived from the root,
\* one the Worker never held.
C2_OneActiveLoopFreshToken == []AtMostOneActive /\ [][FreshTokenStep]_vars

C2_Witness ==
  \E w \in Workers :
    /\ Cardinality(TokensOf(w)) >= 2
    /\ ActiveLoops(w) = {current_token[w]}
    /\ \E t \in TokensOf(w) : t # current_token[w] /\ Alive(t)

FailedBuildStep ==
  \A w \in Workers :
    (TryScheduleStep(w) /\ last_result'[w] \in Errors) =>
      /\ tasks' = tasks
      /\ Len(tokens') = Len(tokens)
      /\ current_token' = current_token
      /\ (current_token[w] # 0 => tokens'[current_token[w]].cancelled)
MalformedConfigStep ==
  (TryScheduleStep("service") /\ config.kind = "malformed") =>
    last_result'["service"] \in Errors
NoLoopAfterFailure ==
  \A w \in Workers : last_result[w] \in Errors => ActiveLoops(w) = {}

\* C3: when the builder fails inside try_schedule (a config record that does
\* not deserialise always makes the service builder fail), try_schedule returns
\* the error, spawns no task, derives and stores no token, has cancelled the
\* previously current token, and the Worker has no active tick loop for as long
\* as that failure is its last try_schedule result.
C3_FailedBuildLeavesWorkerStopped ==
  /\ [][FailedBuildStep /\ MalformedConfigStep]_vars
  /\ []NoLoopAfterFailure

C3_Witness ==
  \E w \in Workers :
    /\ last_result[w] \in Errors
    /\ current_token[w] # 0
    /\ Alive(current_token[w])
    /\ tokens[current_token[w]].cancelled

StopStep ==
  \A w \in Workers :
    Stop(w) =>
      /\ tokens' = [t \in DOMAIN tokens |->
                      IF t = current_token[w] THEN [owner |-> tokens[t].owner, cancelled |-> TRUE]
                      ELSE tokens[t]]
      /\ UNCHANGED <<cancel_token_root, current_token, tasks, last_result, builds>>
      /\ UNCHANGED <<storeVars, appVars>>
      /\ (current_token[w] = 0 => UNCHANGED vars)
      /\ StopTokens(w)' = tokens'

\* C4: stop only cancels the Worker's current token: every other token and
\* all other state is unchanged, on a Worker without a current token nothing
\* changes at all, and a second stop right after the first changes nothing.
C4_StopOnlyCancelsCurrent == [][StopStep]_vars

C4_Witness ==
  \E w \in Workers :
    /\ current_token[w] # 0
    /\ last_result[w] = "ok"
    /\ tokens[current_token[w]].cancelled
    /\ ~cancel_token_root

\* C5: once the root token is cancelled every derived token is cancelled and
\* no tick loop starts another advance.
C5_RootCancelStopsEveryLoop ==
  /\ [](cancel_token_root => \A t \in DOMAIN tokens : tokens[t].cancelled)
  /\ [][cancel_token_root => \A t \in DOMAIN tasks : ~Advances(t)]_vars

SiblingUntouchedStep ==
  \A w \in Workers : \A v \in Workers \ {w} :
    (Stop(w) \/ TryScheduleStep(w)) =>
      /\ current_token'[v] = current_token[v]
      /\ last_result'[v] = last_result[v]
      /\ \A t \in TokensOf(v) : tokens'[t] = tokens[t] /\ tasks'[t] = tasks[t]

\* C6: a stop or a try_schedule on one Worker, successful or failed, changes
\* nothing of another Worker: not its current token, not any of its tokens'
\* cancellation, not its tick loops nor the jobs they hold.
C6_SiblingWorkersUntouched == [][SiblingUntouchedStep]_vars

C6_Witness ==
  \E w \in Workers : \E v \in Workers \ {w} :
    /\ last_result[w] \in Errors
    /\ current_token[w] # 0
    /\ current_token[v] # 0
    /\ Active(current_token[v])
    /\ current_token[v] < current_token[w]


Started == main_pc \in {"watch", "serving"}
OneRebuildPerEvent ==
  /\ Started => builds["podcast"] = 1 + consumed
  /\ watcher = "waiting" => sub + consumed = changes.podcasts
OneEventPerTurn ==
  consumed' # consumed =>
    /\ consumed' = consumed + 1
    /\ sub' = sub - 1
    /\ builds'["podcast"] = builds["podcast"] + 1

\* C7: the change watcher takes the queued notifications one at a time and
\* calls try_schedule on the podcast Worker once for each: once k notifications
\* are consumed the podcast builder has run k times beyond its startup run, and
\* every notification delivered is either still queued or consumed.
C7_OneRebuildPerNotification == []OneRebuildPerEvent /\ [][OneEventPerTurn]_vars

C7_Witness == watcher = "waiting" /\ consumed = 2 /\ builds["podcast"] = 3

\* the jobs a complete read of the podcasts tree as it is now yields
JobsOfStore == PodcastSource(<<>>, {}).jobs
ActiveJobs(w) == tasks[current_token[w]].jobs

\* C8: after a change to the podcast records, once notifications stop, the
\* podcast Worker's current scheduler eventually holds, for good, exactly the
\* jobs of a complete read of the store: one per stored podcast with an
\* update_schedule, in one scheduler built from nothing.
C8_SchedulerReflectsStore ==
  <>[]((changes.podcasts >= 1 /\ watcher = "waiting") => ActiveJobs("podcast") = JobsOfStore)

\* C9 as stated: every change of the config record is followed by a new
\* try_schedule on the service Worker and every change of a podcast record by
\* one on the podcast Worker.
C9_EveryWorkerRebuiltOnChange ==
  /\ []<>(changes.config >= 1 => builds["service"] = 1 + changes.config)
  /\ []<>(changes.podcasts >= 1 => builds["podcast"] = 1 + changes.podcasts)

\* C9 amended: every change of a podcast record made while the server runs is
\* followed by a new try_schedule on the podcast Worker; the service Worker's
\* try_schedule is called once, at startup, whatever happens to the config
\* record.
C9_OnlyPodcastWorkerRebuilt ==
  /\ []<>(changes.podcasts >= 1 => builds["podcast"] = 1 + changes.podcasts)
  /\ [](builds["service"] <= 1)

C9_Witness ==
  /\ changes.config >= 1
  /\ changes.podcasts >= 1
  /\ builds["service"] = 1
  /\ builds["podcast"] = 1 + changes.podcasts

HasCountZero(c) ==
  c.adjustment.some /\ \E i \in DOMAIN c.adjustment.list : c.adjustment.list[i] = Count(0)
CountZeroApplied(job) ==
  \E i \in DOMAIN job.ops : job.ops[i].op = "count" /\ job.ops[i].n = 0
KeyOf(job) == CHOOSE k \in KeyIdx : Keys[k] = job.action
CountZeroConfig == config.kind = "value" /\ HasCountZero(config.schedule)

CountZeroCompiledStep ==
  /\ (TryScheduleStep("service") /\ CountZeroConfig) =>
       /\ last_result'["service"] \in {"ok", "storage_error"}
       /\ last_result'["service"] = "ok" =>
            /\ Len(tasks') = Len(tasks) + 1
            /\ Len(tasks'[Len(tasks')].jobs) = 1
            /\ CountZeroApplied(tasks'[Len(tasks')].jobs[1])
  /\ TryScheduleStep("podcast") =>
       /\ last_result'["podcast"] = "ok"
       /\ Len(tasks') = Len(tasks) + 1
       /\ \A j \in DOMAIN tasks'[Len(tasks')].jobs :
            LET job == tasks'[Len(tasks')].jobs[j]
            IN HasCountZero(storage[KeyOf(job)].schedule) => CountZeroApplied(job)

CallFor(adj) ==
  CASE adj.kind = "At" -> "at_time"
    [] adj.kind = "Plus" -> "plus"
    [] adj.kind = "AndEvery" -> "and_every"
    [] adj.kind = "Count" -> "count"
    [] adj.kind = "RepeatingEvery" -> "repeating_every"
CallsBefore(list, i) ==
  (i - 1) + Cardinality({j \in 1..(i - 1) : list[j].kind = "RepeatingEvery"})
AdjustmentsOf(c) == IF c.adjustment.some THEN c.adjustment.list ELSE <<>>
CompiledInOrder(c, job) ==
  LET list == AdjustmentsOf(c)
  IN /\ job.base = c.base
     /\ Len(job.ops) = CallsBefore(list, Len(list) + 1)
     /\ \A i \in DOMAIN list :
          LET at == CallsBefore(list, i) + 1
          IN /\ job.ops[at].op = CallFor(list[i])
             /\ IF list[i].kind = "RepeatingEvery"
                THEN /\ job.ops[at].arg = list[i].arg
                     /\ job.ops[at + 1] = [op |-> "times", arg |-> "-", n |-> list[i].n]
                ELSE /\ job.ops[at].arg = list[i].arg
                     /\ job.ops[at].n = list[i].n
     /\ (list = <<>> => job.ops = <<>>)
ServiceBuilt == last_result["service"] = "ok"

\* C11: after a successful build from any schedule expression the scheduler
\* holds exactly one job, started from the expression's base interval, whose
\* builder calls are those of the adjustments in list order, one per
\* adjustment (RepeatingEvery(i, n): repeating_every(i) then times(n)); with
\* no list or an empty list the job is the bare base interval.
C11_CompiledInListOrder ==
  ServiceBuilt =>
    LET jobs == ActiveJobs("service")
    IN /\ Len(jobs) = 1
       /\ jobs[1].action = "download"
       /\ CompiledInOrder(config.schedule, jobs[1])

C11_Witness ==
  /\ ServiceBuilt
  /\ config.schedule.adjustment.list = <<RepeatingEvery("Seconds1", 2), Count(2)>>
  /\ Len(ActiveJobs("service")[1].ops) = 3

\* ---- C13
\* what a build reads is bad: a record that does not deserialise, or a store
\* read (service) or scan item (podcast) that fails
BadInput(w, readFails, scanFails) ==
  IF w = "service" THEN readFails \/ config.kind = "malformed"
  ELSE scanFails # {} \/ \E k \in KeyIdx : storage[k].kind = "malformed"
BuildFailedCleanly(w) ==
  /\ last_result'[w] \in Errors
  /\ tasks' = tasks
  /\ ActiveLoops(w)' = {}
BadInputStep(w) ==
  \A readFails \in BOOLEAN, scanFails \in SUBSET KeyIdx :
    (TrySchedule(w, readFails, scanFails) /\ BadInput(w, readFails, scanFails)) =>
      BuildFailedCleanly(w)

\* C13: for either Worker, a try_schedule whose builder meets a record that
\* does not deserialise or a failing store read or scan returns that error to
\* its caller, spawns no task, and leaves the Worker with no active loop.
C13_BadInputFailsEveryBuild == [][\A w \in Workers : BadInputStep(w)]_vars

\* ---- C14
\* C14: a tick loop whose token is cancelled starts no run_pending call.
C14_NoAdvanceOnceCancelled ==
  [][\A t \in DOMAIN tasks : tokens[t].cancelled => ~Advances(t)]_vars

\* ---- C15
\* C15: an advance does not wait for the actions it fired: while a fired
\* action is still running its loop is not held inside the advance (it is at
\* its wait, free to take the next tick or to observe cancellation).
C15_AdvanceDoesNotWait ==
  \A t \in DOMAIN tasks : tasks[t].running # {} => tasks[t].pc # "run_pending"

\* ---- C16
ActionsSurvive(t) ==
  tasks[t].running # {} =>
    /\ tasks'[t].pc \in {"run_pending", "panicked"}
    /\ tasks'[t].pc = "run_pending" =>
         /\ tasks'[t].running \subseteq tasks[t].running
         /\ Cardinality(tasks[t].running \ tasks'[t].running) <= 1
    /\ (tokens'[t].cancelled /\ ~tokens[t].cancelled) => tasks'[t] = tasks[t]

\* C16: while actions fired by a loop are running, no step makes the loop
\* return or drops one of them, whether its token is cancelled or not: the
\* step that cancels the token leaves the task as it is, and afterwards the
\* task stays in the await, losing running actions one at a time as they
\* complete (or is unwound by a panic of one of them).
C16_FiredActionsNotInterrupted == [][\A t \in DOMAIN tasks : ActionsSurvive(t)]_vars

C16_Witness ==
  \E t \in DOMAIN tasks :
    /\ tokens[t].cancelled
    /\ tasks[t].pc = "run_pending"
    /\ Cardinality(tasks[t].running) = 1
    /\ Len(tasks[t].jobs) = 2

\* ---- C17
OwnScheduler ==
  \A t, u \in DOMAIN tasks : t # u => tasks[t].sched # tasks[u].sched

\* C17: a loop starts a run_pending call on its scheduler only when the
\* previous call has returned, nothing that call fired being still awaited,
\* and no two tasks own the same scheduler instance.
C17_AdvancesSequential ==
  /\ [][\A t \in DOMAIN tasks : Advances(t) => tasks[t].running = {}]_vars
  /\ []OwnScheduler

C17_Witness ==
  \E t, u \in DOMAIN tasks :
    /\ tokens[t].owner = tokens[u].owner
    /\ t # u
    /\ tasks[t].pc = "run_pending" /\ tasks[t].running # {}
    /\ tasks[u].pc = "run_pending" /\ tasks[u].running # {}

\* ---- C18
\* C18: a tick loop ends only by cancellation: a loop that is alive and whose
\* token is not cancelled is alive after every step, a failing action included.
C18_LoopSurvivesActionFailure ==
  [][\A t \in DOMAIN tasks : (Alive(t) /\ ~tokens[t].cancelled) => Alive(t)']_vars

\* ---- C19
\* a try_schedule made once the root is cancelled still runs the builder and,
\* unless the builder fails, returns Ok and spawns a task whose token is
\* cancelled from the start
RebuildAfterRootCancel(w) ==
  (cancel_token_root /\ TryScheduleStep(w)) =>
    /\ last_result'[w] \in Errors \cup {"ok"}
    /\ last_result'[w] = "ok" =>
         /\ Len(tasks') = Len(tasks) + 1
         /\ tokens'[Len(tokens')].cancelled
         /\ tasks'[Len(tasks')].pc = "spawned"
\* a loop spawned with a cancelled token returns at its first wait
BornCancelledNeverAdvances(t) ==
  tasks[t].pc = "spawned" => tasks'[t].pc \in {"spawned", "done"}
NoAdvanceAfterRootCancel ==
  cancel_token_root => \A t \in DOMAIN tasks : ~Advances(t)

\* C19: after the root token is cancelled a try_schedule still builds, returns
\* Ok and spawns a task, the task's token is cancelled already and its loop
\* returns at its first wait without an advance, and no loop at all starts an
\* advance any more.
C19_NothingFiresAfterRootCancel ==
  [][/\ \A w \in Workers : RebuildAfterRootCancel(w)
     /\ \A t \in DOMAIN tasks : BornCancelledNeverAdvances(t)
     /\ NoAdvanceAfterRootCancel]_vars
====
